---- MODULE Spec2Model ----
(***************************************************************************)
(* CamCheck Pro: the scoring function calculateCameraScore                 *)
(* (src/src/utils/cameraScore.js) and the React component App              *)
(* (src/src/App.jsx) that acquires a camera stream, waits 2000ms and       *)
(* scores the stream's first video track.                                  *)
(*                                                                         *)
(* JavaScript values are records [k, n, d]: k is "undefined", "NaN",       *)
(* "num" (the rational n/d, d > 0), "inf" or "ninf".  The running score is *)
(* held in tenths (3.5 points are 35), which is exact because every        *)
(* increment of the source is a multiple of 0.5.  Strings produced by      *)
(* toFixed are sequences of one-character strings.                         *)
(***************************************************************************)
EXTENDS Integers, Sequences, FiniteSets, TLC

VARIABLES settings, scoreData,
          mounted, stream, analyzing, result, error, effectStream, videoSrc,
          pendingRequests, timers, live, tracks, calls, starts, lastEvent

scoreVars == <<settings, scoreData>>
appVars == <<mounted, stream, analyzing, result, error, effectStream, videoSrc,
             pendingRequests, timers, live, tracks, calls, starts, lastEvent>>
MaxStarts == 3

vars == <<settings, scoreData,
          mounted, stream, analyzing, result, error, effectStream, videoSrc,
          pendingRequests, timers, live, tracks, calls, starts, lastEvent>>

----------------------------------------------------------------------------
(* JavaScript values and the operators the source applies to them.         *)

Undefined == [k |-> "undefined", n |-> 0, d |-> 1]
NaN == [k |-> "NaN", n |-> 0, d |-> 1]
Infinity == [k |-> "inf", n |-> 0, d |-> 1]
NegInfinity == [k |-> "ninf", n |-> 0, d |-> 1]
Num(n, d) == [k |-> "num", n |-> n, d |-> d]

Abs(i) == IF i < 0 THEN -i ELSE i

\* A faulty Truthy: NaN taken as truthy.
TruthyNaN(v) == v.k \in {"inf", "ninf", "NaN"} \/ (v.k = "num" /\ v.n # 0)

\* ToBoolean: undefined, NaN and 0 are falsy, every other number is truthy.
Truthy(v) == v.k \in {"inf", "ninf"} \/ (v.k = "num" /\ v.n # 0)

\* a || b
Or(a, b) == IF Truthy(a) THEN a ELSE b

\* a / b on finite or absent operands (undefined converts to NaN).
Div(a, b) ==
    IF a.k # "num" \/ b.k # "num" THEN NaN
    ELSE IF b.n = 0
         THEN IF a.n = 0 THEN NaN
              ELSE IF a.n > 0 THEN Infinity ELSE NegInfinity
         ELSE IF b.n > 0 THEN Num(a.n * b.d, a.d * b.n)
              ELSE Num(-(a.n * b.d), a.d * (-b.n))

\* v >= c for an integer literal c (false for NaN and undefined).
Ge(v, c) ==
    \/ v.k = "inf"
    \/ v.k = "num" /\ v.n >= c * v.d

\* A faulty Near177: a tolerance of 0.5 in place of 0.1.
Near177Loose(v) == v.k = "num" /\ Abs(100 * v.n - 177 * v.d) < 50 * v.d

\* Math.abs(v - 1.77) < 0.1
Near177(v) == v.k = "num" /\ Abs(100 * v.n - 177 * v.d) < 10 * v.d

\* v.toFixed exists for numbers only; undefined.toFixed is a TypeError.
HasToFixed(v) == v.k # "undefined"

DigitChars == <<"0", "1", "2", "3", "4", "5", "6", "7", "8", "9">>

RECURSIVE IntChars(_)
IntChars(i) ==
    IF i < 10 THEN <<DigitChars[i + 1]>>
    ELSE IntChars(i \div 10) \o <<DigitChars[(i % 10) + 1]>>

RECURSIVE Pow10(_)
Pow10(f) == IF f = 0 THEN 1 ELSE 10 * Pow10(f - 1)

RECURSIVE PadLeft(_, _)
PadLeft(s, len) == IF Len(s) >= len THEN s ELSE PadLeft(<<"0">> \o s, len)

\* Number.prototype.toFixed(f): the nearest multiple of 10^-f, the larger
\* one on a tie, computed on the magnitude; the sign is prefixed.
toFixed(v, f) ==
    IF v.k = "NaN" THEN <<"NaN">>
    ELSE IF v.k = "inf" THEN <<"Infinity">>
    ELSE IF v.k = "ninf" THEN <<"-Infinity">>
    ELSE LET q == (2 * Abs(v.n) * Pow10(f) + v.d) \div (2 * v.d)
             whole == IntChars(q \div Pow10(f))
             frac == IF f = 0 THEN <<>>
                     ELSE <<".">> \o PadLeft(IntChars(q % Pow10(f)), f)
         IN  (IF v.n < 0 THEN <<"-">> ELSE <<>>) \o whole \o frac

\* Template-literal conversion `${v}` of the values the model feeds in.
ToStr(v) ==
    IF v.k = "undefined" THEN <<"undefined">>
    ELSE IF v.k = "NaN" THEN <<"NaN">>
    ELSE IF v.k = "inf" THEN <<"Infinity">>
    ELSE IF v.k = "ninf" THEN <<"-Infinity">>
    ELSE IF v.d = 1 THEN (IF v.n < 0 THEN <<"-">> ELSE <<>>) \o IntChars(Abs(v.n))
    ELSE toFixed(v, 3)

----------------------------------------------------------------------------
(* calculateCameraScore                                                    *)

\* const resolution = height || 0
resolution(s) == Or(s.height, Num(0, 1))

\* A faulty ResolutionPoints: the 720p tier earns 3 points, not 3.5.
ResolutionPointsWhole(s) ==
    IF Ge(resolution(s), 1080) THEN 50
    ELSE IF Ge(resolution(s), 720) THEN 30
    ELSE IF Ge(resolution(s), 480) THEN 20
    ELSE 10

ResolutionPoints(s) ==
    IF Ge(resolution(s), 1080) THEN 50
    ELSE IF Ge(resolution(s), 720) THEN 35
    ELSE IF Ge(resolution(s), 480) THEN 20
    ELSE 10

ResolutionDetail(s) ==
    IF Ge(resolution(s), 1080) THEN "High Definition (1080p+)"
    ELSE IF Ge(resolution(s), 720) THEN "Standard HD (720p)"
    ELSE IF Ge(resolution(s), 480) THEN "Standard Definition (480p)"
    ELSE "Low Resolution"

\* const fps = frameRate || 30
fps(s) == Or(s.frameRate, Num(30, 1))

FpsPoints(s) ==
    IF Ge(fps(s), 58) THEN 30
    ELSE IF Ge(fps(s), 28) THEN 20
    ELSE 10

FpsDetail(s) ==
    IF Ge(fps(s), 58) THEN "Smooth Motion (60fps)"
    ELSE IF Ge(fps(s), 28) THEN "Standard Motion (30fps)"
    ELSE "Low Frame Rate"

\* A faulty ratio: the fallbacks are left out.
ratioNoFallback(s) == s.aspectRatio

\* const ratio = aspectRatio || (width / height) || 1.77
ratio(s) == Or(Or(s.aspectRatio, Div(s.width, s.height)), Num(177, 100))

RatioPoints(s) == IF Near177(ratio(s)) THEN 10 ELSE 5

RatioDetail(s) ==
    IF Near177(ratio(s)) THEN "Widescreen (16:9)" ELSE "Standard Aspect Ratio"

\* if (resolution >= 1080 && fps >= 28)
Bonus(s) == Ge(resolution(s), 1080) /\ Ge(fps(s), 28)

BonusPoints(s) == IF Bonus(s) THEN 10 ELSE 0

RawScore(s) == ResolutionPoints(s) + FpsPoints(s) + RatioPoints(s) + BonusPoints(s)

Min(a, b) == IF a < b THEN a ELSE b
Max(a, b) == IF a > b THEN a ELSE b

\* score = Math.min(10, score); score = Math.max(1, score)
Clamp(t) == Max(10, Min(100, t))

\* A faulty label: the boundaries are exclusive.
labelExclusive(t) ==
    IF t > 90 THEN "Excellent"
    ELSE IF t > 70 THEN "Good"
    ELSE IF t > 50 THEN "Average"
    ELSE IF t > 30 THEN "Fair"
    ELSE "Poor"

label(t) ==
    IF t >= 90 THEN "Excellent"
    ELSE IF t >= 70 THEN "Good"
    ELSE IF t >= 50 THEN "Average"
    ELSE IF t >= 30 THEN "Fair"
    ELSE "Poor"

TypeError ==
    [threw |-> TRUE, score |-> <<>>, label |-> "", details |-> <<>>,
     metrics |-> [resolution |-> <<>>, frameRate |-> <<>>, aspectRatio |-> <<>>]]

calculateCameraScore(s) ==
    LET score == Clamp(RawScore(s))
        details == <<ResolutionDetail(s), FpsDetail(s), RatioDetail(s)>>
                     \o (IF Bonus(s) THEN <<"Premium Quality Bonus">> ELSE <<>>)
    IN  IF (Truthy(fps(s)) /\ ~HasToFixed(fps(s))) \/ ~HasToFixed(ratio(s))
        THEN TypeError
        ELSE [threw |-> FALSE,
              score |-> toFixed(Num(score, 10), 1),
              label |-> label(score),
              details |-> details,
              metrics |->
                [resolution |-> ToStr(s.width) \o <<"x">> \o ToStr(s.height),
                 frameRate |-> (IF Truthy(fps(s)) THEN toFixed(fps(s), 0)
                                ELSE <<"N/A">>) \o <<" fps">>,
                 aspectRatio |-> toFixed(ratio(s), 2)]]

----------------------------------------------------------------------------
(* The settings records the scoring function is applied to: every field    *)
(* absent, NaN, zero, negative, or on either side of each threshold.       *)

Widths ==
    {Undefined, NaN, Num(0, 1), Num(-640, 1), Num(640, 1), Num(1280, 1),
     Num(1920, 1)}

Heights ==
    {Undefined, NaN, Num(0, 1), Num(-480, 1), Num(479, 1), Num(480, 1),
     Num(719, 1), Num(720, 1), Num(1079, 1), Num(1080, 1), Num(2160, 1)}

FrameRates ==
    {Undefined, NaN, Num(0, 1), Num(-1, 1), Num(27, 1), Num(2799, 100),
     Num(28, 1), Num(30, 1), Num(57, 1), Num(58, 1), Num(60, 1)}

AspectRatios ==
    {Undefined, NaN, Num(0, 1), Num(-177, 100), Num(1333, 1000),
     Num(167, 100), Num(168, 100), Num(1777, 1000), Num(186, 100),
     Num(187, 100)}

CameraSettings ==
    [width : Widths, height : Heights, frameRate : FrameRates,
     aspectRatio : AspectRatios]

\* {width: 1920, height: 1080, frameRate: 60, aspectRatio: 1.777}
FullHD ==
    [width |-> Num(1920, 1), height |-> Num(1080, 1), frameRate |-> Num(60, 1),
     aspectRatio |-> Num(1777, 1000)]

\* {width: 640, height: 480, frameRate: 30}
VGA ==
    [width |-> Num(640, 1), height |-> Num(480, 1), frameRate |-> Num(30, 1),
     aspectRatio |-> Undefined]

\* {height: 0, frameRate: 0}
ZeroHeight ==
    [width |-> Undefined, height |-> Num(0, 1), frameRate |-> Num(0, 1),
     aspectRatio |-> Undefined]

\* Settings a granted stream's first video track may report.
TrackSettings == {FullHD, VGA, ZeroHeight}

----------------------------------------------------------------------------
(* The component App.  stream and effectStream are stream ids, 0 for null; *)
(* result and error are <<>> for null and <<v>> for the value v.  The      *)
(* stream with id i reports the settings tracks[i] and has had             *)
(* calculateCameraScore called on them calls[i] times.                     *)

ErrorMessage ==
    "Could not access camera. Please ensure you have a camera connected and have granted permission."

AppInit ==
    /\ mounted = TRUE
    /\ stream = 0
    /\ analyzing = FALSE
    /\ result = <<>>
    /\ error = <<>>
    /\ effectStream = 0
    /\ videoSrc = 0
    /\ pendingRequests = 0
    /\ timers = {}
    /\ live = {}
    /\ tracks = <<>>
    /\ calls = <<>>
    /\ starts = 0
    /\ lastEvent = <<"mount", 0>>

\* What the JSX renders (lines 81, 94, 103, 107, 163).
StartPanel == mounted /\ stream = 0 /\ result = <<>>
ErrorShown == StartPanel /\ error # <<>>
PreviewPanel == mounted /\ stream # 0
AnalyzingOverlay == PreviewPanel /\ analyzing
RetestButton == PreviewPanel /\ result # <<>>

\* The render that follows setStream(s) and its passive effects.  The effect
\* depends on [stream]; when the dependency differs from the one the
\* registered cleanup closed over (e), that cleanup runs stopCamera with its
\* own stream: it stops e's tracks and calls setStream(null), which renders
\* again.  l is the set of streams with live tracks.
RECURSIVE Commit(_, _, _)
Commit(s, e, l) ==
    IF s = e THEN [stream |-> s, effectStream |-> e, live |-> l]
    ELSE IF e # 0 THEN Commit(0, s, l \ {e})
    ELSE [stream |-> s, effectStream |-> s, live |-> l]

\* startCamera up to the await of getUserMedia.
startCamera ==
    /\ starts < MaxStarts
    /\ starts' = starts + 1
    /\ error' = <<>>
    /\ result' = <<>>
    /\ pendingRequests' = pendingRequests + 1
    /\ UNCHANGED <<mounted, stream, analyzing, effectStream, videoSrc, timers,
                   live, tracks, calls>>

\* onClick of "Start Camera Check".
ClickStart ==
    /\ StartPanel
    /\ startCamera
    /\ lastEvent' = <<"start", 0>>
    /\ UNCHANGED scoreVars

\* onClick of "Retest Camera".
ClickRetest ==
    /\ RetestButton
    /\ startCamera
    /\ lastEvent' = <<"retest", 0>>
    /\ UNCHANGED scoreVars

\* getUserMedia resolves with a new stream: the rest of the try block, and
\* the render it causes.  After unmount the setters do nothing.
Granted(s) ==
    LET id == Len(tracks) + 1
        c == Commit(id, effectStream, live \cup {id})
    IN  /\ pendingRequests > 0
        /\ pendingRequests' = pendingRequests - 1
        /\ tracks' = Append(tracks, s)
        /\ calls' = Append(calls, 0)
        /\ timers' = timers \cup {id}
        /\ IF mounted
           THEN /\ stream' = c.stream
                /\ effectStream' = c.effectStream
                /\ live' = c.live
                /\ analyzing' = TRUE
                /\ videoSrc' = IF c.stream # 0 /\ stream # 0 THEN id ELSE 0
           ELSE /\ live' = live \cup {id}
                /\ UNCHANGED <<stream, effectStream, analyzing, videoSrc>>
        /\ lastEvent' = <<"granted", id>>
        /\ UNCHANGED <<mounted, result, error, starts>>
        /\ UNCHANGED scoreVars

\* getUserMedia rejects: the catch block.
Rejected ==
    /\ pendingRequests > 0
    /\ pendingRequests' = pendingRequests - 1
    /\ error' = IF mounted THEN <<ErrorMessage>> ELSE error
    /\ lastEvent' = <<"rejected", 0>>
    /\ UNCHANGED <<mounted, stream, analyzing, result, effectStream, videoSrc,
                   timers, live, tracks, calls, starts>>
    /\ UNCHANGED scoreVars

\* A faulty TimerFires: setInterval in place of setTimeout, so the timer
\* stays scheduled after it has fired.
TimerFiresInterval(id) ==
    LET data == calculateCameraScore(tracks[id])
    IN  /\ id \in timers
        /\ calls[id] < MaxStarts
        /\ calls' = [calls EXCEPT ![id] = @ + 1]
        /\ result' = IF mounted /\ ~data.threw THEN <<data>> ELSE result
        /\ analyzing' = IF mounted /\ ~data.threw THEN FALSE ELSE analyzing
        /\ lastEvent' = <<"timer", id>>
        /\ UNCHANGED <<mounted, stream, error, effectStream, videoSrc,
                       pendingRequests, timers, live, tracks, starts>>
        /\ UNCHANGED scoreVars

\* The 2000ms timeout of stream id expires: analyzeQuality(mediaStream),
\* then setAnalyzing(false).
TimerFires(id) ==
    LET data == calculateCameraScore(tracks[id])
    IN  /\ id \in timers
        /\ timers' = timers \ {id}
        /\ calls' = [calls EXCEPT ![id] = @ + 1]
        /\ result' = IF mounted /\ ~data.threw THEN <<data>> ELSE result
        /\ analyzing' = IF mounted /\ ~data.threw THEN FALSE ELSE analyzing
        /\ lastEvent' = <<"timer", id>>
        /\ UNCHANGED <<mounted, stream, error, effectStream, videoSrc,
                       pendingRequests, live, tracks, starts>>
        /\ UNCHANGED scoreVars

\* The component unmounts: the registered effect cleanup runs stopCamera.
Unmount ==
    /\ mounted
    /\ mounted' = FALSE
    /\ live' = IF effectStream # 0 THEN live \ {effectStream} ELSE live
    /\ videoSrc' = 0
    /\ lastEvent' = <<"unmount", 0>>
    /\ UNCHANGED <<stream, analyzing, result, error, effectStream,
                   pendingRequests, timers, tracks, calls, starts>>
    /\ UNCHANGED scoreVars

Init ==
    /\ AppInit
    /\ settings = FullHD
    /\ scoreData = <<>>

Next ==
    \/ ClickStart
    \/ ClickRetest
    \/ \E s \in TrackSettings : Granted(s)
    \/ Rejected
    \/ \E id \in timers : TimerFires(id)
    \/ Unmount

Spec == Init /\ [][Next]_vars

\* The same component under a user who never clicks while a permission
\* request or a warm-up timer is outstanding.
Quiet == pendingRequests = 0 /\ timers = {}

SeqClickStart == Quiet /\ ClickStart

SeqClickRetest == Quiet /\ ClickRetest

SeqNext ==
    \/ SeqClickStart
    \/ SeqClickRetest
    \/ \E s \in TrackSettings : Granted(s)
    \/ Rejected
    \/ \E id \in timers : TimerFires(id)
    \/ Unmount

SeqSpec == Init /\ [][SeqNext]_vars

----------------------------------------------------------------------------
(* The scoring function on its own: one call on each settings record.      *)

ScoreInit ==
    /\ AppInit
    /\ settings \in CameraSettings
    /\ scoreData = <<>>

Score ==
    /\ scoreData = <<>>
    /\ scoreData' = <<calculateCameraScore(settings)>>
    /\ UNCHANGED settings
    /\ UNCHANGED appVars

ScoreNext == Score

ScoreSpec == ScoreInit /\ [][ScoreNext]_vars

----------------------------------------------------------------------------
(* Reading a score string back: the value, in tenths, of "d...d.d".        *)

DigitVal(c) == CHOOSE i \in 0..9 : DigitChars[i + 1] = c

RECURSIVE IntOf(_)
IntOf(s) ==
    IF Len(s) = 0 THEN 0
    ELSE 10 * IntOf(SubSeq(s, 1, Len(s) - 1)) + DigitVal(s[Len(s)])

OneDecimal(s) ==
    /\ Len(s) >= 3
    /\ s[Len(s) - 1] = "."
    /\ \A i \in (1..Len(s)) \ {Len(s) - 1} : \E j \in 1..10 : DigitChars[j] = s[i]

ParseTenths(s) == 10 * IntOf(SubSeq(s, 1, Len(s) - 2)) + DigitVal(s[Len(s)])

Scored == scoreData # <<>>

----------------------------------------------------------------------------
(* The scoring function's claims, under ScoreSpec.                         *)

\* The components as claim C1 words them, on the fields themselves.
StatedResolutionPoints(s) ==
    LET h == IF s.height.k = "undefined" THEN Num(0, 1) ELSE s.height
    IN  IF Ge(h, 1080) THEN 50
        ELSE IF Ge(h, 720) THEN 35
        ELSE IF Ge(h, 480) THEN 20
        ELSE 10

StatedFramePoints(f) ==
    IF Ge(f, 58) THEN 30 ELSE IF Ge(f, 28) THEN 20 ELSE 10

StatedRatioPoints(s) ==
    IF ratio(s).k = "num" /\ Abs(100 * ratio(s).n - 177 * ratio(s).d) < 10 * ratio(s).d
    THEN 10 ELSE 5

StatedScore(s, f) ==
    LET sum == StatedResolutionPoints(s) + StatedFramePoints(f) + StatedRatioPoints(s)
               + (IF Ge(s.height, 1080) /\ Ge(f, 28) THEN 10 ELSE 0)
    IN  IF sum > 100 THEN 100 ELSE IF sum < 10 THEN 10 ELSE sum

\* frameRate taken as 30 when absent.
FrameRateIfAbsent(s) ==
    IF s.frameRate.k = "undefined" THEN Num(30, 1) ELSE s.frameRate

\* frameRate taken as 30 when absent, NaN or 0.
FrameRateIfFalsy(s) ==
    IF s.frameRate.k \in {"undefined", "NaN"} \/ (s.frameRate.k = "num" /\ s.frameRate.n = 0)
    THEN Num(30, 1) ELSE s.frameRate

\* C1 as stated: the score is the clamped sum of the resolution, frame-rate,
\* aspect-ratio and bonus components, the frame rate being taken as 30 only
\* when it is absent, formatted to one decimal.
C1_ScoreIsStatedSum ==
    Scored =>
        /\ ~scoreData[1].threw
        /\ OneDecimal(scoreData[1].score)
        /\ ParseTenths(scoreData[1].score) = StatedScore(settings, FrameRateIfAbsent(settings))

\* C1 amended: the same sum, with the frame rate taken as 30 when it is
\* absent, NaN or 0, in the frame-rate component and in the bonus test alike.
C1_ScoreIsSumWithFalsyFrameRate ==
    Scored =>
        /\ ~scoreData[1].threw
        /\ OneDecimal(scoreData[1].score)
        /\ ParseTenths(scoreData[1].score) = StatedScore(settings, FrameRateIfFalsy(settings))

\* A 1080p record whose frameRate is 0 has been scored, bonus included.
C1_Witness ==
    /\ Scored
    /\ settings.height = Num(1080, 1)
    /\ settings.frameRate = Num(0, 1)
    /\ scoreData[1].details[Len(scoreData[1].details)] = "Premium Quality Bonus"

\* C2: the call never throws and the returned score lies in [1.0, 10.0],
\* whatever the fields are (zero, negative, NaN and absent included).
C2_ScoreInRange ==
    Scored =>
        /\ ~scoreData[1].threw
        /\ OneDecimal(scoreData[1].score)
        /\ ParseTenths(scoreData[1].score) >= 10
        /\ ParseTenths(scoreData[1].score) <= 100

\* A record with absent, zero and negative fields has been scored.
C2_Witness ==
    /\ Scored
    /\ settings.width = Num(-640, 1)
    /\ settings.height = Num(0, 1)
    /\ settings.frameRate = Undefined
    /\ settings.aspectRatio = Undefined

\* C3: the label is decided by the returned one-decimal score with inclusive
\* lower boundaries: Excellent iff >= 9, Good iff in [7, 9), Average iff in
\* [5, 7), Fair iff in [3, 5), Poor iff < 3.
C3_LabelAgreesWithScore ==
    Scored =>
        LET r == scoreData[1]
            t == ParseTenths(r.score)
        IN  /\ ~r.threw
            /\ r.label = "Excellent" <=> t >= 90
            /\ r.label = "Good" <=> (t >= 70 /\ t < 90)
            /\ r.label = "Average" <=> (t >= 50 /\ t < 70)
            /\ r.label = "Fair" <=> (t >= 30 /\ t < 50)
            /\ r.label = "Poor" <=> t < 30

\* A score exactly on a boundary, 7.0, has been returned with its label.
C3_Witness ==
    /\ Scored
    /\ scoreData[1].score = <<"7", ".", "0">>
    /\ scoreData[1].label = "Good"

\* C4 as stated: {width: 640, height: 480, frameRate: 30} scores
\* 2 + 2 + 0.5 = 4.5 and is labelled "Average".
C4_VGAIsAverage ==
    (Scored /\ settings = VGA) =>
        /\ ResolutionPoints(settings) = 20
        /\ FpsPoints(settings) = 20
        /\ RatioPoints(settings) = 5
        /\ scoreData[1].score = <<"4", ".", "5">>
        /\ scoreData[1].label = "Average"

\* C4 amended: the same record scores 2 + 2 + 0.5 = 4.5 (ratio 1.33) and is
\* labelled "Fair".
C4_VGAIsFair ==
    (Scored /\ settings = VGA) =>
        /\ ResolutionPoints(settings) = 20
        /\ FpsPoints(settings) = 20
        /\ RatioPoints(settings) = 5
        /\ scoreData[1].metrics.aspectRatio = <<"1", ".", "3", "3">>
        /\ scoreData[1].score = <<"4", ".", "5">>
        /\ scoreData[1].label = "Fair"

C4_Witness == Scored /\ settings = VGA /\ ~scoreData[1].threw

\* C5: {height: 0, frameRate: 0} takes the frame rate as 30 (2 points),
\* falls to "Low Resolution" (1 point), and its ratio is the 1.77 default,
\* so the aspect-ratio test is made on 1.77 (and passes), not on NaN.
C5_ZeroHeightDefaults ==
    (Scored /\ settings = ZeroHeight) =>
        LET r == scoreData[1]
        IN  /\ ~r.threw
            /\ FpsPoints(settings) = 20
            /\ ResolutionPoints(settings) = 10
            /\ r.details = <<"Low Resolution", "Standard Motion (30fps)", "Widescreen (16:9)">>
            /\ r.metrics.frameRate = <<"3", "0", " fps">>
            /\ r.metrics.aspectRatio = <<"1", ".", "7", "7">>
            /\ r.score = <<"4", ".", "0">>

C5_Witness == Scored /\ settings = ZeroHeight /\ scoreData[1].label = "Fair"

----------------------------------------------------------------------------
(* The component's claims.                                                 *)

\* C6: over every interleaving of clicks, grants, rejections, cleanups and
\* timer expiries, at most one permission request or warm-up timer is
\* outstanding.
C6_NoConcurrentAnalyses == pendingRequests + Cardinality(timers) <= 1

\* C7: a stream acquired on a re-test finds every earlier stream stopped,
\* and once the component is unmounted and every request and timer has
\* settled, no acquired stream has a live track.
C7_StreamsReleased ==
    /\ (mounted /\ lastEvent[1] = "granted") =>
           \A i \in 1..(lastEvent[2] - 1) : i \notin live
    /\ (~mounted /\ Quiet) => live = {}

\* C8: after a rejected request the component is idle: no stream, no result,
\* the error message shown and "Start Camera Check" offered.
C8_RejectionReturnsToIdle ==
    (mounted /\ lastEvent[1] = "rejected") =>
        /\ stream = 0
        /\ result = <<>>
        /\ error = <<ErrorMessage>>
        /\ ErrorShown
        /\ StartPanel

\* C9: every acquired stream has exactly one warm-up timer, which calls
\* calculateCameraScore exactly once, on that stream's settings, when it
\* fires; in a mounted component the firing stores that result and clears
\* analyzing; and a result is only ever the score of an acquired stream.
C9_OneScorePerAcquisition ==
    /\ Len(calls) = Len(tracks)
    /\ timers \subseteq 1..Len(tracks)
    /\ \A i \in 1..Len(tracks) :
           IF i \in timers THEN calls[i] = 0 ELSE calls[i] = 1
    /\ (mounted /\ lastEvent[1] = "timer") =>
           /\ result = <<calculateCameraScore(tracks[lastEvent[2]])>>
           /\ analyzing = FALSE
    /\ result # <<>> =>
           \E i \in 1..Len(tracks) :
               calls[i] = 1 /\ result = <<calculateCameraScore(tracks[i])>>

\* The timer of a second acquisition has fired and its score is stored.
C9_Witness ==
    /\ mounted
    /\ lastEvent = <<"timer", 2>>
    /\ calls = <<1, 1>>
    /\ result = <<calculateCameraScore(tracks[2])>>

\* C10: a displayed result implies a held stream whose tracks are live, so
\* the component always renders the start panel or the preview panel.
C10_ResultImpliesLiveStream ==
    /\ (mounted /\ result # <<>>) => (stream # 0 /\ stream \in live)
    /\ mounted => (StartPanel \/ PreviewPanel)

====
